---- MODULE Spec2Model ----
(***************************************************************************)
(* A model of the resourcery Pool (src/resourcery.go): the unbuffered      *)
(* resourceQueue channel with its handoff goroutines, the mutex-guarded    *)
(* resourceCount, the fire-and-forget MonitorFunc goroutines, and the      *)
(* Wizard built on top of them.                                            *)
(*                                                                         *)
(* Granularity: one action per block of statements between two points at   *)
(* which another goroutine can observe or change shared state.             *)
(***************************************************************************)
EXTENDS Integers, FiniteSets, Sequences, TLC

\* ---------------------------------------------------------------- bounds
NumProcs == 2      \* client goroutines calling the Pool
MaxFresh == 2      \* resources the clients construct themselves
WizN == 2          \* largest resourceCount argument given to NewWizard
MaxBad == 1        \* resources whose health may fail after creation
MaxPending == 1    \* pending MonitorFunc goroutines at which clients stop calling

\* Distinct Resource values that can ever be constructed: by the clients, or
\* by the factory for NewWizard and for one replacement per failed resource.
NumRes == IF MaxFresh > WizN + MaxBad THEN MaxFresh ELSE WizN + MaxBad

Wiz == 0                       \* the goroutine that runs NewWizard
Procs == 1..NumProcs           \* the client goroutines
Threads == 0..NumProcs
Res == 1..NumRes
Nil == 0                       \* the nil Resource

\* Action constants, resourcery.go:29-39
ResourceAdded == "ResourceAdded"
ResourceRequested == "ResourceRequested"
UnhealthyResourceTerminated == "UnhealthyResourceTerminated"
ShutdownAction == "Shutdown"
Actions == {ResourceAdded, ResourceRequested, UnhealthyResourceTerminated, ShutdownAction}

VARIABLES
  MonitorFunc,    \* "nil", "noop" (a callback that ignores every event) or "wizard"
  resourceCount,  \* Pool.resourceCount
  resourceQueue,  \* per resource: handoff goroutines blocked in the send on the channel
  handoffs,       \* per resource: handoff goroutines started by `go`, not yet at the send
  monitors,       \* per Action: MonitorFunc goroutines started by `go`, not yet run
  replacing,      \* per resource: wizard callbacks inside AddResource, after the count++
  healthy,        \* per resource: what IsHealthy() returns now
  terminated,     \* per resource: number of Terminate() calls made on it
  created,        \* resources 1..created have been constructed
  factoryGood,    \* TRUE: the ResourceFactory always succeeds with a healthy resource
  wizardCount,    \* Wizard.resourceCount, the argument N of NewWizard (0: no Wizard)
  pc,             \* per thread: position in the code
  res,            \* per thread: the variable res of the call in progress
  err,            \* per thread: the error the call in progress is about to return
  ctxDone,        \* per thread: ctx.Done() of the GetResource in progress is closed
  held,           \* per client: the resources it got from GetResource and still owns
  wi,             \* NewWizard's loop counter i
  \* ------------------------------------------------ history (observers only)
  wentBad,        \* resources whose health failed after creation
  badInQueue,     \* resources whose health failed while they were enqueued
  ctxAtCall,      \* per thread: ctx was already done when GetResource was called
  deqs,           \* per thread: resources dequeued by the call in progress
  discards,       \* per thread: resources discarded (terminated) by the call in progress
  okAt,           \* per thread: the call in progress saw IsHealthy() true on res
  snap,           \* per thread: resources enqueued when Shutdown was called, less those
                  \* a GetResource call has dequeued since
  decs,           \* per thread: count-- steps made by the call in progress
  net,            \* successful AddResource calls minus successful GetResource calls
  factoryCalls,   \* ResourceFactory invocations
  discarded,      \* unhealthy resources terminated by GetResource
  replaced        \* replacements the Wizard's callback has added

pool == <<MonitorFunc, resourceCount, resourceQueue, handoffs, monitors, replacing>>
world == <<healthy, terminated, created, factoryGood, wizardCount>>
locals == <<pc, res, err, ctxDone, held, wi>>
calls == <<ctxAtCall, deqs, discards, okAt, decs>>
totals == <<net, factoryCalls, discarded, replaced>>
marks == <<wentBad, badInQueue, snap>>
history == <<marks, calls, totals>>
vars == <<pool, world, locals, history>>

\* ------------------------------------------------------------- helpers
RECURSIVE SumOver(_, _)
SumOver(f, S) == IF S = {} THEN 0
                 ELSE LET x == CHOOSE y \in S : TRUE IN f[x] + SumOver(f, S \ {x})

Pending == SumOver(monitors, Actions)

\* Resources waiting for a receiver: their AddResource has started the handoff.
Enqueued(r) == handoffs[r] + resourceQueue[r]
EnqueuedCount == SumOver(handoffs, Res) + SumOver(resourceQueue, Res)

\* Pool.Size()
Size == resourceCount

\* `go p.MonitorFunc(newActionMsg(a))` under `if p.MonitorFunc != nil`
Dispatch(a) == IF MonitorFunc # "nil" THEN [monitors EXCEPT ![a] = @ + 1] ELSE monitors

\* Clients start a call only while fewer than MaxPending callback goroutines
\* are pending or about to be started by an AddResource in progress.
ClientRoom ==
  \/ MonitorFunc = "nil"
  \/ Pending + Cardinality({p \in Procs : pc[p] = "add_go"}) < MaxPending

\* `go func() { p.resourceQueue <- res }()`
StartHandoff(r) == [handoffs EXCEPT ![r] = @ + 1]

\* The Pool can be used by clients: it was built by NewPool/NewMonitoredPool,
\* or NewWizard has returned the Wizard.
PoolAvailable == pc[Wiz] \in {"none", "ready"}

Idle(p) == pc[p] = "idle" /\ PoolAvailable /\ ClientRoom

\* ------------------------------------------------------- initial states
InitCommon ==
  /\ resourceCount = 0
  /\ resourceQueue = [r \in Res |-> 0]
  /\ handoffs = [r \in Res |-> 0]
  /\ monitors = [a \in Actions |-> 0]
  /\ replacing = [r \in Res |-> 0]
  /\ healthy = [r \in Res |-> TRUE]
  /\ terminated = [r \in Res |-> 0]
  /\ created = 0
  /\ res = [t \in Threads |-> Nil]
  /\ err = [t \in Threads |-> "nil"]
  /\ ctxDone = [t \in Threads |-> FALSE]
  /\ held = [p \in Procs |-> {}]
  /\ wi = 0
  /\ wentBad = {}
  /\ badInQueue = {}
  /\ ctxAtCall = [t \in Threads |-> FALSE]
  /\ deqs = [t \in Threads |-> {}]
  /\ discards = [t \in Threads |-> {}]
  /\ okAt = [t \in Threads |-> FALSE]
  /\ snap = [t \in Threads |-> {}]
  /\ decs = [t \in Threads |-> 0]
  /\ net = 0
  /\ factoryCalls = 0
  /\ discarded = 0
  /\ replaced = 0

\* NewPool() or NewMonitoredPool(f), resourcery.go:18-23, 52-56
Init ==
  /\ InitCommon
  /\ MonitorFunc \in {"nil", "noop"}
  /\ factoryGood = TRUE
  /\ wizardCount = 0
  /\ pc = [t \in Threads |-> IF t = Wiz THEN "none" ELSE "idle"]

\* Entry of NewWizard, resourcery.go:170-194: the pool exists, the loop has not begun.
WizInit ==
  /\ InitCommon
  /\ MonitorFunc = "wizard"
  /\ factoryGood \in BOOLEAN
  /\ wizardCount \in 1..WizN
  /\ pc = [t \in Threads |-> IF t = Wiz THEN "new_loop" ELSE "idle"]

\* --------------------------------------------------------- AddResource
\* Mutant of AddEnter: the count++ is left until after the handoff goroutine
\* has been started, so it is not made on entry.
AddEnterCountsLater(t, r, h) ==
  /\ res' = [res EXCEPT ![t] = r]
  /\ resourceCount' = resourceCount
  /\ IF h
       THEN /\ pc' = [pc EXCEPT ![t] = "add_go"]
            /\ err' = [err EXCEPT ![t] = "nil"]
       ELSE /\ pc' = [pc EXCEPT ![t] = "add_err"]
            /\ err' = [err EXCEPT ![t] = "unhealthy"]

\* Mutant of AddEnter: the count++ is made before the health check.
AddEnterCountsFirst(t, r, h) ==
  /\ res' = [res EXCEPT ![t] = r]
  /\ resourceCount' = resourceCount + 1
  /\ IF h
       THEN /\ pc' = [pc EXCEPT ![t] = "add_go"]
            /\ err' = [err EXCEPT ![t] = "nil"]
       ELSE /\ pc' = [pc EXCEPT ![t] = "add_err"]
            /\ err' = [err EXCEPT ![t] = "unhealthy"]

\* resourcery.go:68-73, entered with resource r whose IsHealthy() returns h:
\* the health check, then the count++ under the mutex.
AddEnter(t, r, h) ==
  /\ res' = [res EXCEPT ![t] = r]
  /\ IF h
       THEN /\ resourceCount' = resourceCount + 1
            /\ pc' = [pc EXCEPT ![t] = "add_go"]
            /\ err' = [err EXCEPT ![t] = "nil"]
       ELSE /\ resourceCount' = resourceCount
            /\ pc' = [pc EXCEPT ![t] = "add_err"]
            /\ err' = [err EXCEPT ![t] = "unhealthy"]

\* A client constructs a resource and adds it (resourcery_test.go:17, 62).
AddFresh(p, h) ==
  /\ Idle(p)
  /\ created < MaxFresh
  /\ created' = created + 1
  /\ healthy' = [healthy EXCEPT ![created + 1] = h]
  /\ AddEnter(p, created + 1, h)
  /\ UNCHANGED <<MonitorFunc, resourceQueue, handoffs, monitors, replacing,
                 terminated, factoryGood, wizardCount, ctxDone, held, wi, history>>

\* A client puts back a resource it got from GetResource (resourcery_test.go:45).
AddHeld(p, r) ==
  /\ Idle(p)
  /\ r \in held[p]
  /\ held' = [held EXCEPT ![p] = @ \ {r}]
  /\ AddEnter(p, r, healthy[r])
  /\ UNCHANGED <<MonitorFunc, resourceQueue, handoffs, monitors, replacing,
                 world, ctxDone, wi, history>>

\* resourcery.go:75-81: the ResourceAdded notification, the handoff goroutine,
\* return nil.  In NewWizard the loop goes on (resourcery.go:196).
AddGo(t) ==
  /\ pc[t] = "add_go"
  /\ monitors' = Dispatch(ResourceAdded)
  /\ handoffs' = StartHandoff(res[t])
  /\ res' = [res EXCEPT ![t] = Nil]
  /\ net' = net + 1
  /\ IF t = Wiz
       THEN pc' = [pc EXCEPT ![t] = "new_loop"] /\ wi' = wi + 1
       ELSE pc' = [pc EXCEPT ![t] = "idle"] /\ wi' = wi
  /\ UNCHANGED <<MonitorFunc, resourceCount, resourceQueue, replacing, world,
                 err, ctxDone, held, marks, calls, factoryCalls, discarded, replaced>>

\* Mutant of AddErr: NewWizard ignores the error of AddResource and goes on
\* with its loop.
AddErrIgnored(t) ==
  /\ pc[t] = "add_err"
  /\ IF t = Wiz
       THEN /\ pc' = [pc EXCEPT ![t] = "new_loop"]
            /\ wi' = wi + 1
            /\ res' = [res EXCEPT ![t] = Nil]
            /\ err' = [err EXCEPT ![t] = "nil"]
            /\ UNCHANGED held
       ELSE /\ pc' = [pc EXCEPT ![t] = "idle"]
            /\ held' = [held EXCEPT ![t] = @ \cup {res[t]}]
            /\ res' = [res EXCEPT ![t] = Nil]
            /\ err' = [err EXCEPT ![t] = "nil"]
            /\ UNCHANGED wi
  /\ UNCHANGED <<pool, world, ctxDone, history>>

\* resourcery.go:69: return the error; the caller keeps the resource.
\* In NewWizard (resourcery.go:202-204) the error ends the construction.
AddErr(t) ==
  /\ pc[t] = "add_err"
  /\ IF t = Wiz
       THEN /\ pc' = [pc EXCEPT ![t] = "new_err"]
            /\ UNCHANGED <<res, err, held>>
       ELSE /\ pc' = [pc EXCEPT ![t] = "idle"]
            /\ held' = [held EXCEPT ![t] = @ \cup {res[t]}]
            /\ res' = [res EXCEPT ![t] = Nil]
            /\ err' = [err EXCEPT ![t] = "nil"]
  /\ UNCHANGED <<pool, world, ctxDone, wi, history>>

\* Mutant of Park: the handoff goroutine ends without sending its resource.
ParkDrops(r) ==
  /\ handoffs[r] > 0
  /\ handoffs' = [handoffs EXCEPT ![r] = @ - 1]
  /\ UNCHANGED <<MonitorFunc, resourceCount, resourceQueue, monitors, replacing,
                 world, locals, history>>

\* The handoff goroutine reaches `p.resourceQueue <- res` (resourcery.go:79)
\* and blocks there until a receiver takes the resource.
Park(r) ==
  /\ handoffs[r] > 0
  /\ handoffs' = [handoffs EXCEPT ![r] = @ - 1]
  /\ resourceQueue' = [resourceQueue EXCEPT ![r] = @ + 1]
  /\ UNCHANGED <<MonitorFunc, resourceCount, monitors, replacing, world, locals, history>>

\* Mutant of Recv: the sender stays blocked on the channel after the receive,
\* as a buffered or re-sent value would.
RecvLeavesSender(t, r) ==
  /\ resourceQueue[r] > 0
  /\ resourceQueue' = resourceQueue
  /\ res' = [res EXCEPT ![t] = r]

\* A receive from the unbuffered channel: one blocked sender hands over its
\* resource and ends (resourcery.go:95, 125).
Recv(t, r) ==
  /\ resourceQueue[r] > 0
  /\ resourceQueue' = [resourceQueue EXCEPT ![r] = @ - 1]
  /\ res' = [res EXCEPT ![t] = r]

\* --------------------------------------------------------- GetResource
\* resourcery.go:87-91: the call, with a context that is (d) or is not yet done,
\* and the ResourceRequested notification.
GetCall(p, d) ==
  /\ Idle(p)
  /\ monitors' = Dispatch(ResourceRequested)
  /\ ctxDone' = [ctxDone EXCEPT ![p] = d]
  /\ ctxAtCall' = [ctxAtCall EXCEPT ![p] = d]
  /\ pc' = [pc EXCEPT ![p] = "get_select"]
  /\ UNCHANGED <<MonitorFunc, resourceCount, resourceQueue, handoffs, replacing,
                 world, res, err, held, wi, marks, deqs, discards, okAt, decs, totals>>

\* The context is cancelled or its deadline passes while the call is running.
Cancel(p) ==
  /\ pc[p] \in {"get_select", "get_dec", "get_health", "get_term"}
  /\ ~ctxDone[p]
  /\ ctxDone' = [ctxDone EXCEPT ![p] = TRUE]
  /\ UNCHANGED <<pool, world, pc, res, err, held, wi, history>>

\* resourcery.go:94-95: the select takes the receive case.
GetRecv(p, r) ==
  /\ pc[p] = "get_select"
  /\ Recv(p, r)
  /\ pc' = [pc EXCEPT ![p] = "get_dec"]
  /\ deqs' = [deqs EXCEPT ![p] = @ \cup {r}]
  /\ snap' = [t \in Threads |-> snap[t] \ {r}]
  /\ UNCHANGED <<MonitorFunc, resourceCount, handoffs, monitors, replacing, world,
                 err, ctxDone, held, wi, wentBad, badInQueue, ctxAtCall,
                 discards, okAt, decs, totals>>

\* Mutant of GetCtx: the context is only looked at when the call starts, not
\* in the select.
GetCtxAtEntryOnly(p) ==
  /\ pc[p] = "get_select"
  /\ ctxDone[p] /\ ctxAtCall[p]
  /\ err' = [err EXCEPT ![p] = "ctx"]
  /\ pc' = [pc EXCEPT ![p] = "get_ret"]
  /\ UNCHANGED <<pool, world, res, ctxDone, held, wi, history>>

\* resourcery.go:110-112: the select takes the ctx.Done() case.
GetCtx(p) ==
  /\ pc[p] = "get_select"
  /\ ctxDone[p]
  /\ err' = [err EXCEPT ![p] = "ctx"]
  /\ pc' = [pc EXCEPT ![p] = "get_ret"]
  /\ UNCHANGED <<pool, world, res, ctxDone, held, wi, history>>

\* Mutant of GetDec: the count-- is lost.
GetDecLost(p) ==
  /\ pc[p] = "get_dec"
  /\ resourceCount' = resourceCount
  /\ decs' = [decs EXCEPT ![p] = @ + 1]
  /\ pc' = [pc EXCEPT ![p] = "get_health"]
  /\ UNCHANGED <<MonitorFunc, resourceQueue, handoffs, monitors, replacing, world,
                 res, err, ctxDone, held, wi, marks, ctxAtCall, deqs, discards,
                 okAt, totals>>

\* resourcery.go:96-98: the count-- under the mutex.
GetDec(p) ==
  /\ pc[p] = "get_dec"
  /\ resourceCount' = resourceCount - 1
  /\ decs' = [decs EXCEPT ![p] = @ + 1]
  /\ pc' = [pc EXCEPT ![p] = "get_health"]
  /\ UNCHANGED <<MonitorFunc, resourceQueue, handoffs, monitors, replacing, world,
                 res, err, ctxDone, held, wi, marks, ctxAtCall, deqs, discards,
                 okAt, totals>>

\* Mutant of GetHealth: no health check, every dequeued resource is returned.
GetHealthNoCheck(p) ==
  /\ pc[p] = "get_health"
  /\ okAt' = [okAt EXCEPT ![p] = healthy[res[p]]]
  /\ pc' = [pc EXCEPT ![p] = "get_ret"]
  /\ UNCHANGED <<pool, world, res, err, ctxDone, held, wi, marks, ctxAtCall, deqs,
                 discards, decs, totals>>

\* Mutant of GetHealth: a context that is done by now wins over the resource
\* just dequeued, which is dropped.
GetHealthCtxFirst(p) ==
  /\ pc[p] = "get_health"
  /\ okAt' = [okAt EXCEPT ![p] = healthy[res[p]]]
  /\ IF ctxDone[p]
       THEN /\ pc' = [pc EXCEPT ![p] = "get_ret"]
            /\ err' = [err EXCEPT ![p] = "ctx"]
            /\ res' = [res EXCEPT ![p] = Nil]
            /\ UNCHANGED monitors
       ELSE /\ UNCHANGED <<res, err>>
            /\ IF healthy[res[p]]
                 THEN /\ pc' = [pc EXCEPT ![p] = "get_ret"]
                      /\ UNCHANGED monitors
                 ELSE /\ monitors' = Dispatch(UnhealthyResourceTerminated)
                      /\ pc' = [pc EXCEPT ![p] = "get_term"]
  /\ UNCHANGED <<MonitorFunc, resourceCount, resourceQueue, handoffs, replacing,
                 world, ctxDone, held, wi, marks, ctxAtCall, deqs,
                 discards, decs, totals>>

\* Mutant of GetHealth: a healthy resource is returned together with the
\* context's error when the context is done at the health check.
GetHealthReportsCtx(p) ==
  /\ pc[p] = "get_health"
  /\ okAt' = [okAt EXCEPT ![p] = healthy[res[p]]]
  /\ IF healthy[res[p]]
       THEN /\ pc' = [pc EXCEPT ![p] = "get_ret"]
            /\ err' = [err EXCEPT ![p] = IF ctxDone[p] THEN "ctx" ELSE @]
            /\ UNCHANGED monitors
       ELSE /\ monitors' = Dispatch(UnhealthyResourceTerminated)
            /\ pc' = [pc EXCEPT ![p] = "get_term"]
            /\ UNCHANGED err
  /\ UNCHANGED <<MonitorFunc, resourceCount, resourceQueue, handoffs, replacing,
                 world, res, ctxDone, held, wi, marks, ctxAtCall, deqs,
                 discards, decs, totals>>

\* Mutant of GetHealth: the UnhealthyResourceTerminated notification is
\* started for every dequeued resource, healthy or not.
GetHealthAlwaysNotifies(p) ==
  /\ pc[p] = "get_health"
  /\ okAt' = [okAt EXCEPT ![p] = healthy[res[p]]]
  /\ monitors' = Dispatch(UnhealthyResourceTerminated)
  /\ pc' = [pc EXCEPT ![p] = IF healthy[res[p]] THEN "get_ret" ELSE "get_term"]
  /\ UNCHANGED <<MonitorFunc, resourceCount, resourceQueue, handoffs, replacing,
                 world, res, err, ctxDone, held, wi, marks, ctxAtCall, deqs,
                 discards, decs, totals>>

\* resourcery.go:100-106: the health check; a healthy resource leaves the loop,
\* an unhealthy one has its UnhealthyResourceTerminated notification started.
GetHealth(p) ==
  /\ pc[p] = "get_health"
  /\ okAt' = [okAt EXCEPT ![p] = healthy[res[p]]]
  /\ IF healthy[res[p]]
       THEN /\ pc' = [pc EXCEPT ![p] = "get_ret"]
            /\ UNCHANGED monitors
       ELSE /\ monitors' = Dispatch(UnhealthyResourceTerminated)
            /\ pc' = [pc EXCEPT ![p] = "get_term"]
  /\ UNCHANGED <<MonitorFunc, resourceCount, resourceQueue, handoffs, replacing,
                 world, res, err, ctxDone, held, wi, marks, ctxAtCall, deqs,
                 discards, decs, totals>>

\* Mutant of GetTerm: the terminated resource is not dropped (no res = nil),
\* so the loop ends and the call returns it.
GetTermKeepsRes(p) ==
  /\ pc[p] = "get_term"
  /\ terminated' = [terminated EXCEPT ![res[p]] = @ + 1]
  /\ discards' = [discards EXCEPT ![p] = @ \cup {res[p]}]
  /\ discarded' = discarded + 1
  /\ pc' = [pc EXCEPT ![p] = "get_ret"]
  /\ UNCHANGED <<pool, healthy, created, factoryGood, wizardCount, res, err, ctxDone, held, wi,
                 marks, ctxAtCall, deqs, okAt, decs, net, factoryCalls, replaced>>

\* resourcery.go:107-108: res.Terminate(); res = nil; back to the select.
GetTerm(p) ==
  /\ pc[p] = "get_term"
  /\ terminated' = [terminated EXCEPT ![res[p]] = @ + 1]
  /\ discards' = [discards EXCEPT ![p] = @ \cup {res[p]}]
  /\ discarded' = discarded + 1
  /\ res' = [res EXCEPT ![p] = Nil]
  /\ pc' = [pc EXCEPT ![p] = "get_select"]
  /\ UNCHANGED <<pool, healthy, created, factoryGood, wizardCount, err, ctxDone, held, wi,
                 marks, ctxAtCall, deqs, okAt, decs, net, factoryCalls, replaced>>

\* resourcery.go:115: return res, err; the caller now owns a returned resource.
GetRet(p) ==
  /\ pc[p] = "get_ret"
  /\ pc' = [pc EXCEPT ![p] = "idle"]
  /\ held' = [held EXCEPT ![p] = IF res[p] # Nil THEN @ \cup {res[p]} ELSE @]
  /\ net' = IF res[p] # Nil THEN net - 1 ELSE net
  /\ res' = [res EXCEPT ![p] = Nil]
  /\ err' = [err EXCEPT ![p] = "nil"]
  /\ ctxDone' = [ctxDone EXCEPT ![p] = FALSE]
  /\ ctxAtCall' = [ctxAtCall EXCEPT ![p] = FALSE]
  /\ deqs' = [deqs EXCEPT ![p] = {}]
  /\ discards' = [discards EXCEPT ![p] = {}]
  /\ okAt' = [okAt EXCEPT ![p] = FALSE]
  /\ decs' = [decs EXCEPT ![p] = 0]
  /\ UNCHANGED <<pool, world, wi, marks, factoryCalls, discarded, replaced>>

\* ------------------------------------------------------------ Shutdown
\* resourcery.go:119-122: the call and the Shutdown notification.
ShutCall(p) ==
  /\ Idle(p)
  /\ monitors' = Dispatch(ShutdownAction)
  /\ pc' = [pc EXCEPT ![p] = "shut_loop"]
  /\ snap' = [snap EXCEPT ![p] = {r \in Res : Enqueued(r) > 0}]
  /\ UNCHANGED <<MonitorFunc, resourceCount, resourceQueue, handoffs, replacing,
                 world, res, err, ctxDone, held, wi, wentBad, badInQueue,
                 calls, totals>>

\* resourcery.go:124-125: the select takes the receive case.
ShutRecv(p, r) ==
  /\ pc[p] = "shut_loop"
  /\ Recv(p, r)
  /\ pc' = [pc EXCEPT ![p] = "shut_term"]
  /\ UNCHANGED <<MonitorFunc, resourceCount, handoffs, monitors, replacing, world,
                 err, ctxDone, held, wi, history>>

\* resourcery.go:128: res.Terminate(), on the caller's goroutine.
ShutTerm(p) ==
  /\ pc[p] = "shut_term"
  /\ terminated' = [terminated EXCEPT ![res[p]] = @ + 1]
  /\ res' = [res EXCEPT ![p] = Nil]
  /\ pc' = [pc EXCEPT ![p] = "shut_loop"]
  /\ UNCHANGED <<pool, healthy, created, factoryGood, wizardCount, err, ctxDone, held, wi, history>>

\* Mutant of ShutDefault: Shutdown waits for the handoff goroutines that have
\* not reached the channel yet before it returns.
ShutDefaultWaits(p) ==
  /\ pc[p] = "shut_loop"
  /\ \A r \in Res : resourceQueue[r] = 0 /\ handoffs[r] = 0
  /\ pc' = [pc EXCEPT ![p] = "shut_ret"]
  /\ UNCHANGED <<pool, world, res, err, ctxDone, held, wi, history>>

\* resourcery.go:129-130: no sender is blocked on the channel: default, return.
ShutDefault(p) ==
  /\ pc[p] = "shut_loop"
  /\ \A r \in Res : resourceQueue[r] = 0
  /\ pc' = [pc EXCEPT ![p] = "shut_ret"]
  /\ UNCHANGED <<pool, world, res, err, ctxDone, held, wi, history>>

\* Shutdown has returned to its caller.
ShutRet(p) ==
  /\ pc[p] = "shut_ret"
  /\ pc' = [pc EXCEPT ![p] = "idle"]
  /\ snap' = [snap EXCEPT ![p] = {}]
  /\ UNCHANGED <<pool, world, res, err, ctxDone, held, wi, wentBad, badInQueue,
                 calls, totals>>

\* --------------------------------------------------- MonitorFunc goroutines
\* Mutant of MonitorIgnore: the Wizard's callback calls the factory on every
\* event, whatever the Action.
MonitorCallsFactory(a) ==
  /\ monitors[a] > 0
  /\ MonitorFunc = "wizard" => a # UnhealthyResourceTerminated
  /\ monitors' = [monitors EXCEPT ![a] = @ - 1]
  /\ factoryCalls' = IF MonitorFunc = "wizard" THEN factoryCalls + 1 ELSE factoryCalls
  /\ UNCHANGED <<MonitorFunc, resourceCount, resourceQueue, handoffs, replacing,
                 world, locals, marks, calls, net, discarded, replaced>>

\* A started MonitorFunc goroutine runs a callback that does nothing with the
\* event: a user callback (resourcery_test.go:12-15), or the Wizard's switch
\* on any Action but UnhealthyResourceTerminated (resourcery.go:177-178).
MonitorIgnore(a) ==
  /\ monitors[a] > 0
  /\ MonitorFunc = "wizard" => a # UnhealthyResourceTerminated
  /\ monitors' = [monitors EXCEPT ![a] = @ - 1]
  /\ UNCHANGED <<MonitorFunc, resourceCount, resourceQueue, handoffs, replacing,
                 world, locals, history>>

\* What a ResourceFactory call can give: an error, or a resource that is or
\* is not healthy.  A good factory only gives healthy resources.
AllOutcomes == {"healthy", "unhealthy", "error"}
FactoryOutcomes == IF factoryGood THEN {"healthy"} ELSE AllOutcomes

\* Mutant of WizardReplace: the callback adds whatever the factory made, as if
\* AddResource had no health check.
WizardReplaceAddsAny(o) ==
  /\ MonitorFunc = "wizard"
  /\ monitors[UnhealthyResourceTerminated] > 0
  /\ o \in FactoryOutcomes
  /\ monitors' = [monitors EXCEPT ![UnhealthyResourceTerminated] = @ - 1]
  /\ factoryCalls' = factoryCalls + 1
  /\ IF o = "error"
       THEN UNCHANGED <<created, healthy, resourceCount, replacing>>
       ELSE /\ created < NumRes
            /\ created' = created + 1
            /\ healthy' = [healthy EXCEPT ![created + 1] = (o = "healthy")]
            /\ resourceCount' = resourceCount + 1
            /\ replacing' = [replacing EXCEPT ![created + 1] = @ + 1]
  /\ UNCHANGED <<MonitorFunc, resourceQueue, handoffs, terminated, factoryGood, wizardCount,
                 locals, marks, calls, net, discarded, replaced>>

\* Mutant of WizardReplace: the callback calls the factory and drops the
\* resource it made instead of adding it.
WizardReplaceDrops(o) ==
  /\ MonitorFunc = "wizard"
  /\ monitors[UnhealthyResourceTerminated] > 0
  /\ o \in FactoryOutcomes
  /\ monitors' = [monitors EXCEPT ![UnhealthyResourceTerminated] = @ - 1]
  /\ factoryCalls' = factoryCalls + 1
  /\ UNCHANGED <<MonitorFunc, resourceCount, resourceQueue, handoffs, replacing,
                 world, locals, marks, calls, net, discarded, replaced>>

\* resourcery.go:178-192 up to the count++ of AddResource (resourcery.go:68-73):
\* the Wizard's callback calls the factory and adds the replacement.
WizardReplace(o) ==
  /\ MonitorFunc = "wizard"
  /\ monitors[UnhealthyResourceTerminated] > 0
  /\ o \in FactoryOutcomes
  /\ monitors' = [monitors EXCEPT ![UnhealthyResourceTerminated] = @ - 1]
  /\ factoryCalls' = factoryCalls + 1
  /\ IF o = "error"
       THEN UNCHANGED <<created, healthy, resourceCount, replacing>>
       ELSE /\ created < NumRes
            /\ created' = created + 1
            /\ healthy' = [healthy EXCEPT ![created + 1] = (o = "healthy")]
            /\ IF o = "healthy"
                 THEN /\ resourceCount' = resourceCount + 1
                      /\ replacing' = [replacing EXCEPT ![created + 1] = @ + 1]
                 ELSE UNCHANGED <<resourceCount, replacing>>
  /\ UNCHANGED <<MonitorFunc, resourceQueue, handoffs, terminated, factoryGood, wizardCount,
                 locals, marks, calls, net, discarded, replaced>>

\* resourcery.go:75-81 inside the Wizard's callback: the rest of AddResource.
ReplaceGo(r) ==
  /\ replacing[r] > 0
  /\ replacing' = [replacing EXCEPT ![r] = @ - 1]
  /\ monitors' = Dispatch(ResourceAdded)
  /\ handoffs' = StartHandoff(r)
  /\ net' = net + 1
  /\ replaced' = replaced + 1
  /\ UNCHANGED <<MonitorFunc, resourceCount, resourceQueue, world, locals,
                 marks, calls, factoryCalls, discarded>>

\* ----------------------------------------------------------- NewWizard
\* resourcery.go:196-201: one turn of the loop: the factory call, then the
\* entry of AddResource.
NewLoop(o) ==
  /\ pc[Wiz] = "new_loop"
  /\ wi < wizardCount
  /\ o \in FactoryOutcomes
  /\ factoryCalls' = factoryCalls + 1
  /\ IF o = "error"
       THEN /\ pc' = [pc EXCEPT ![Wiz] = "new_err"]
            /\ err' = [err EXCEPT ![Wiz] = "factory"]
            /\ UNCHANGED <<created, healthy, resourceCount, res>>
       ELSE /\ created < NumRes
            /\ created' = created + 1
            /\ healthy' = [healthy EXCEPT ![created + 1] = (o = "healthy")]
            /\ AddEnter(Wiz, created + 1, o = "healthy")
  /\ UNCHANGED <<MonitorFunc, resourceQueue, handoffs, monitors, replacing,
                 terminated, factoryGood, wizardCount, ctxDone, held, wi, marks, calls,
                 net, discarded, replaced>>

\* resourcery.go:196, 206: the loop is over: return w, nil.
NewReturn ==
  /\ pc[Wiz] = "new_loop"
  /\ wi >= wizardCount
  /\ pc' = [pc EXCEPT ![Wiz] = "new_ok"]
  /\ UNCHANGED <<pool, world, res, err, ctxDone, held, wi, history>>

\* Wizard.Pool(), resourcery.go:162-164: the clients get hold of the pool.
WizardPool ==
  /\ pc[Wiz] = "new_ok"
  /\ pc' = [pc EXCEPT ![Wiz] = "ready"]
  /\ UNCHANGED <<pool, world, res, err, ctxDone, held, wi, history>>

\* ------------------------------------------------------------ resources
\* The health of a live resource fails (resourcery_test.go:82, 159).
GoBad(r) ==
  /\ r <= created
  /\ healthy[r]
  /\ terminated[r] = 0
  /\ Cardinality(wentBad) < MaxBad
  /\ healthy' = [healthy EXCEPT ![r] = FALSE]
  /\ wentBad' = wentBad \cup {r}
  /\ badInQueue' = IF Enqueued(r) > 0 THEN badInQueue \cup {r} ELSE badInQueue
  /\ UNCHANGED <<pool, terminated, created, factoryGood, wizardCount, locals, snap, calls, totals>>

\* ------------------------------------------------------- specifications
\* AddResource and GetResource calls by the clients in P, and the goroutines
\* they start.
UseStep(P) ==
  \/ \E p \in P, r \in Res : AddHeld(p, r)
  \/ \E t \in P \cup {Wiz} : AddGo(t)
  \/ \E t \in P \cup {Wiz} : AddErr(t)
  \/ \E r \in Res : Park(r)
  \/ \E p \in P, d \in BOOLEAN : GetCall(p, d)
  \/ \E p \in P : Cancel(p)
  \/ \E p \in P, r \in Res : GetRecv(p, r)
  \/ \E p \in P : GetCtx(p)
  \/ \E p \in P : GetDec(p)
  \/ \E p \in P : GetHealth(p)
  \/ \E p \in P : GetTerm(p)
  \/ \E p \in P : GetRet(p)
  \/ \E a \in Actions : MonitorIgnore(a)
  \/ \E r \in Res : GoBad(r)

ShutStep ==
  \/ \E p \in Procs : ShutCall(p)
  \/ \E p \in Procs, r \in Res : ShutRecv(p, r)
  \/ \E p \in Procs : ShutTerm(p)
  \/ \E p \in Procs : ShutDefault(p)
  \/ \E p \in Procs : ShutRet(p)

PoolStep == UseStep(Procs) \/ ShutStep

\* A Pool used directly by its clients.
Next ==
  \/ \E p \in Procs, h \in BOOLEAN : AddFresh(p, h)
  \/ PoolStep

Spec == Init /\ [][Next]_vars

\* NewWizard and the Wizard's callback.
WizStep ==
  \/ \E o \in AllOutcomes : NewLoop(o)
  \/ NewReturn
  \/ WizardPool
  \/ \E o \in AllOutcomes : WizardReplace(o)
  \/ \E r \in Res : ReplaceGo(r)

\* A Pool built and refilled by a Wizard.
WizNext == WizStep \/ PoolStep

WizSpec == WizInit /\ [][WizNext]_vars

\* A Wizard's pool in service: one client borrows and returns, nobody shuts
\* the pool down (resourcery_test.go:163-184).
Borrower == 1
WizUseNext == WizStep \/ UseStep({Borrower})

\* Every started goroutine gets to run, and every call that can go on does.
Scheduling ==
  /\ \A r \in Res : WF_vars(Park(r)) /\ WF_vars(ReplaceGo(r))
  /\ \A a \in Actions : WF_vars(MonitorIgnore(a))
  /\ WF_vars(\E o \in AllOutcomes : WizardReplace(o))
  /\ WF_vars(\E o \in AllOutcomes : NewLoop(o)) /\ WF_vars(NewReturn) /\ WF_vars(WizardPool)
  /\ \A t \in Threads : WF_vars(AddGo(t)) /\ WF_vars(AddErr(t))
  /\ \A p \in Procs :
       /\ WF_vars(GetCtx(p)) /\ WF_vars(GetDec(p)) /\ WF_vars(GetHealth(p))
       /\ WF_vars(GetTerm(p)) /\ WF_vars(GetRet(p))

\* The client keeps borrowing, and a sender blocked on the channel is served
\* when receives keep coming (the channel serves its blocked senders in turn).
Borrowing ==
  /\ SF_vars(GetCall(Borrower, FALSE))
  /\ \A r \in Res : SF_vars(GetRecv(Borrower, r))

WizLive == WizInit /\ [][WizUseNext]_vars /\ Scheduling /\ Borrowing

\* Every GetResource call is made with a context that has a deadline
\* (context.WithTimeout, resourcery_test.go:245, 271): the deadline passes.
Deadlines == \A p \in Procs : WF_vars(Cancel(p))

WizTimed == WizLive /\ Deadlines

TypeOK ==
  /\ MonitorFunc \in {"nil", "noop", "wizard"}
  /\ resourceCount \in Int
  /\ created \in 0..NumRes
  /\ \A r \in Res : resourceQueue[r] \in Nat /\ handoffs[r] \in Nat

\* ================================================================ claims
\* Number of goroutines that have resource r in hand: a handoff goroutine, a
\* callback or call that is adding or has received it, a client that owns it.
Holders(r) ==
  Enqueued(r) + replacing[r]
  + Cardinality({t \in Threads : res[t] = r})
  + Cardinality({p \in Procs : r \in held[p]})

Quiescent == \A p \in Procs : pc[p] = "idle"

\* C1: with clients that only add resources they own, a resource is in one
\* place at a time (one handoff goroutine, one call, or one borrower), so two
\* borrowers never hold the same resource; and a GetResource that returns a
\* nil error returns the one resource it dequeued and did not discard.
C1_OneReceiver ==
  /\ \A r \in Res : Holders(r) <= 1
  /\ \A p \in Procs :
       pc[p] = "get_ret" /\ err[p] = "nil" =>
         res[p] \in Res /\ deqs[p] \ discards[p] = {res[p]}

\* Both clients have borrowed: one owns a resource while GetResource returns
\* another resource to the other.
C1_Witness ==
  \E p, q \in Procs :
    /\ p # q
    /\ held[p] # {}
    /\ pc[q] = "get_ret" /\ err[q] = "nil" /\ res[q] \in Res

InHand(p, r) == res[p] = r /\ pc[p] \in {"get_dec", "get_health", "get_term"}

\* C2: a resource whose health failed while it was enqueued is never returned
\* by GetResource nor owned by a client afterwards; the GetResource call that
\* dequeued it has it in hand or has terminated it exactly once and dropped it;
\* and every resource GetResource returns passed the IsHealthy() check made
\* after it was dequeued.
C2_BadInQueueDiscarded ==
  /\ \A r \in badInQueue :
       /\ terminated[r] <= 1
       /\ \A p \in Procs :
            /\ r \notin held[p]
            /\ ~(pc[p] = "get_ret" /\ res[p] = r)
            /\ r \in deqs[p] =>
                 \/ InHand(p, r)
                 \/ r \in discards[p] /\ terminated[r] = 1 /\ res[p] # r
  /\ \A p \in Procs : pc[p] = "get_ret" /\ res[p] # Nil => okAt[p]

\* A GetResource call has discarded a resource that went bad in the queue and
\* returns a healthy one it dequeued afterwards.
C2_Witness ==
  \E p \in Procs, r \in badInQueue :
    /\ r \in discards[p] /\ terminated[r] = 1
    /\ pc[p] = "get_ret" /\ res[p] \in Res /\ err[p] = "nil"

PoolState == <<resourceCount, resourceQueue, handoffs, replacing, monitors, terminated>>

\* C3: AddResource on a resource whose IsHealthy() is false returns the error
\* and leaves the count, the queue, the terminations and the notifications as
\* they were; the caller keeps the resource, which is never enqueued.
C3_UnhealthyAddRejected ==
  /\ [](\A p \in Procs : \A r \in held[p] \cup (IF pc[p] = "add_err" THEN {res[p]} ELSE {}) :
          ~healthy[r] => Enqueued(r) = 0 /\ terminated[r] = 0)
  /\ [][\A t \in Threads :
          LET entering == pc[t] \in {"idle", "new_loop"} /\ pc'[t] \in {"add_go", "add_err"}
              rejecting == pc[t] # "add_err" /\ pc'[t] = "add_err"
              returning == pc[t] = "add_err" /\ pc'[t] # "add_err"
          IN  /\ entering /\ ~healthy'[res'[t]] => rejecting
              /\ rejecting => err'[t] = "unhealthy" /\ ~healthy'[res'[t]]
              /\ rejecting \/ returning => PoolState' = PoolState
              /\ returning /\ t \in Procs => res[t] \in held'[t]
       ]_vars

\* An unhealthy resource has been rejected while the pool holds resources.
C3_Witness ==
  \E p \in Procs :
    pc[p] = "add_err" /\ ~healthy[res[p]] /\ err[p] = "unhealthy" /\ resourceCount > 0

\* C4: with resources that stay healthy and AddResource/GetResource calls only,
\* once no call is in progress Size() is the number of successful AddResource
\* calls less the number of successful GetResource calls, and that many
\* resources are enqueued.
C4_SizeAtQuiescence ==
  Quiescent /\ wentBad = {} /\ (\A r \in Res : terminated[r] = 0) =>
    Size = net /\ EnqueuedCount = net /\ net >= 0

\* Two resources were added and one is borrowed: one is left in the pool.
C4_Witness ==
  /\ Quiescent /\ wentBad = {} /\ \A r \in Res : terminated[r] = 0
  /\ net = 1 /\ Size = 1
  /\ \E p \in Procs : \E r \in held[p] : healthy[r]

\* C5: whenever no call is in progress, Size() is the number of resources
\* enqueued and not yet dequeued, also after a Shutdown.
C5_SizeIsEnqueued == Quiescent => Size = EnqueuedCount

\* C6: a GetResource called with a context that is already done returns the
\* context's error and no resource.
C6_DoneCtxFails ==
  \A p \in Procs : pc[p] = "get_ret" /\ ctxAtCall[p] => err[p] = "ctx" /\ res[p] = Nil

\* C7 as claimed: a GetResource that returns the context's error has dequeued
\* nothing, counted nothing down and terminated nothing.
C7_CancelledCallTouchedNothing ==
  \A p \in Procs :
    pc[p] = "get_ret" /\ err[p] = "ctx" =>
      deqs[p] = {} /\ decs[p] = 0 /\ discards[p] = {}

\* C7 as amended: a GetResource that returns the context's error returns no
\* resource and has removed from the pool only the resources it found
\* unhealthy: each one it dequeued it terminated once and counted down once.
C7_CancelledCallOnlyDiscards ==
  \A p \in Procs :
    pc[p] = "get_ret" /\ err[p] = "ctx" =>
      /\ res[p] = Nil
      /\ deqs[p] = discards[p]
      /\ decs[p] = Cardinality(discards[p])
      /\ \A r \in discards[p] : terminated[r] = 1 /\ ~healthy[r]

\* A GetResource call returns the context's error after it discarded a resource.
C7_Witness ==
  \E p \in Procs : pc[p] = "get_ret" /\ err[p] = "ctx" /\ discards[p] # {}

\* C8: when Shutdown returns, every resource that was enqueued when it was
\* called (its AddResource had returned) and that no GetResource dequeued
\* since has been terminated exactly once.
C8_ShutdownTerminatesEnqueued ==
  \A p \in Procs : pc[p] = "shut_ret" => \A r \in snap[p] : terminated[r] = 1

\* C9: NewWizard returns the Wizard with Size() = N and N resources enqueued,
\* one per factory call, each accepted as healthy, after exactly N factory
\* calls; or it returns an error and no Wizard, at the first factory call that
\* fails or gives a resource AddResource rejects, with no factory call after it.
C9_NewWizard ==
  /\ pc[Wiz] = "new_ok" =>
       /\ err[Wiz] = "nil" /\ wi = wizardCount
       /\ Size = wizardCount /\ EnqueuedCount = wizardCount
       /\ factoryCalls = wizardCount /\ created = wizardCount
       /\ \A r \in 1..wizardCount : Enqueued(r) = 1 /\ (healthy[r] \/ r \in wentBad)
  /\ pc[Wiz] = "new_err" =>
       /\ wi < wizardCount /\ factoryCalls = wi + 1
       /\ Size = wi /\ EnqueuedCount = wi
       /\ \/ err[Wiz] = "factory" /\ created = wi
          \/ /\ err[Wiz] = "unhealthy" /\ created = wi + 1
             /\ res[Wiz] = created /\ ~healthy[created] /\ Enqueued(created) = 0
       /\ \A p \in Procs : pc[p] = "idle" /\ held[p] = {}
  /\ pc[Wiz] \in {"new_loop", "add_go", "add_err"} =>
       /\ factoryCalls = (IF pc[Wiz] = "new_loop" THEN wi ELSE wi + 1)
       /\ \A p \in Procs : pc[p] = "idle" /\ held[p] = {}

\* NewWizard returns the Wizard.
C9_Witness == pc[Wiz] = "new_ok" /\ Size = wizardCount /\ EnqueuedCount = wizardCount

\* Resources not terminated that are enqueued, borrowed, or in a call's hands.
Alive == Cardinality({r \in Res : terminated[r] = 0 /\ Holders(r) > 0})

\* C10: with a factory that always gives a healthy resource and a pool in
\* service, every discard by GetResource is followed by a replacement added by
\* the Wizard, the resources enqueued or borrowed come back to N, and every
\* replacement enqueued is dequeued by a borrower.
C10_DiscardReplaced ==
  /\ \A k \in 1..MaxBad :
       (factoryGood /\ discarded >= k) ~> (replaced >= k /\ Alive = wizardCount)
  /\ \A r \in Res :
       (factoryGood /\ r > wizardCount /\ Enqueued(r) > 0) ~> (\E p \in Procs : r \in deqs[p])

\* A replacement has been added after a discard and a borrower has dequeued it.
C10_Witness ==
  /\ factoryGood /\ discarded >= 1 /\ replaced >= 1 /\ Alive = wizardCount
  /\ \E p \in Procs : \E r \in deqs[p] : r > wizardCount

InGet(p) == pc[p] \in {"get_select", "get_dec", "get_health", "get_term"}

\* A Wizard of N = 1 in service whose one resource failed while enqueued and
\* whose factory has made no healthy resource since construction.
Doomed ==
  /\ wizardCount = 1 /\ pc[Wiz] = "ready"
  /\ 1 \in badInQueue
  /\ \A r \in Res : r > 1 /\ r <= created => ~healthy[r] /\ r \notin wentBad

ConstructionCalls ==
  wi + (IF pc[Wiz] \in {"add_go", "add_err", "new_err"} THEN 1 ELSE 0)

\* UnhealthyResourceTerminated events dispatched (resourcery.go:104-106), and
\* those whose callback has run.
Dispatched == discarded + Cardinality({p \in Procs : pc[p] = "get_term"})
Reactions == Dispatched - monitors[UnhealthyResourceTerminated]

\* C12: the factory is called once per construction turn and once per
\* UnhealthyResourceTerminated callback that has run, and at no other time:
\* no other event, no failed replacement and no rejected AddResource adds a
\* factory call.
C12_FactoryCalls ==
  /\ factoryCalls = ConstructionCalls + Reactions
  /\ Reactions >= 0
  /\ pc[Wiz] = "ready" => ConstructionCalls = wizardCount

\* A discard whose replacement failed, all callbacks run and all calls over:
\* one factory call beyond the N of construction, and a pool one short.
C12_Witness ==
  /\ pc[Wiz] = "ready" /\ Quiescent /\ Pending = 0
  /\ discarded = 1 /\ replaced = 0 /\ \A r \in Res : replacing[r] = 0
  /\ factoryCalls = wizardCount + 1
  /\ net < wizardCount

\* C13: with clients that only add resources they own, Terminate is called at
\* most once on each resource, by a discard or by Shutdown, and a terminated
\* resource is not enqueued, not being added, not owned by a borrower and not
\* returned by GetResource.
C13_TerminatedOnce ==
  \A r \in Res :
    /\ terminated[r] <= 1
    /\ terminated[r] = 1 =>
         /\ Enqueued(r) = 0 /\ replacing[r] = 0
         /\ \A p \in Procs : r \notin held[p] /\ ~(pc[p] = "get_ret" /\ res[p] = r)
         /\ \A t \in Threads : pc[t] \in {"add_go", "add_err"} => res[t] # r

\* One resource was terminated by a discard and another, still healthy, by
\* Shutdown.
C13_Witness ==
  \E r1, r2 \in Res :
    /\ r1 \in badInQueue /\ terminated[r1] = 1 /\ discarded = 1
    /\ r2 # r1 /\ healthy[r2] /\ terminated[r2] = 1

\* C14: under fair scheduling, a healthy enqueued resource and a GetResource
\* call waiting with a live context lead to a GetResource call returning a
\* resource, unless the resource fails or the context ends first; and no
\* resource stays enqueued for ever while a call stays at the select.
C14_Delivery ==
  \A p \in Procs, r \in Res :
    /\ (Enqueued(r) > 0 /\ healthy[r] /\ pc[p] = "get_select" /\ ~ctxDone[p])
         ~> \/ \E q \in Procs : pc[q] = "get_ret" /\ res[q] \in Res /\ err[q] = "nil"
            \/ ~healthy[r]
            \/ ctxDone[p]
    /\ (Enqueued(r) > 0 /\ pc[p] = "get_select")
         ~> (Enqueued(r) = 0 \/ pc[p] # "get_select")

\* A call waiting with a live context has received the healthy resource that
\* was enqueued and returns it.
C14_Witness ==
  /\ pc[Borrower] = "get_ret" /\ res[Borrower] \in Res /\ err[Borrower] = "nil"
  /\ ~ctxDone[Borrower] /\ healthy[res[Borrower]]
  /\ deqs[Borrower] = {res[Borrower]}

C16_ShutdownFrame ==
  /\ \A p \in Procs : \A r \in held[p] :
       /\ terminated[r] = 0
       /\ \A q \in Procs : pc[q] = "shut_term" => res[q] # r
  /\ \A p \in Procs :
       /\ pc[p] = "shut_loop" =>
            /\ ENABLED (ShutDefault(p) \/ \E r \in Res : ShutRecv(p, r))
            /\ (\A r \in Res : resourceQueue[r] = 0) => ENABLED ShutDefault(p)
       /\ pc[p] = "shut_term" => ENABLED ShutTerm(p)
       /\ pc[p] = "shut_ret" => ENABLED ShutRet(p)

\* Shutdown has terminated one resource and returns while the other client,
\* which owns a resource, waits in GetResource with a live context.
C16_Witness ==
  \E p, q \in Procs :
    /\ pc[p] = "shut_ret"
    /\ pc[q] = "get_select" /\ ~ctxDone[q] /\ held[q] # {}
    /\ \E r \in Res : terminated[r] = 1 /\ r \notin wentBad

\* C17: every UnhealthyResourceTerminated callback that has run, and every
\* replacement the Wizard has started to add, follows the Terminate call on
\* the resource it is about: there are no more of them than resources
\* terminated by a discard.
C17_TerminatedBeforeEvent ==
  /\ Reactions <= discarded
  /\ replaced + SumOver(replacing, Res) <= discarded

\* C18: the count is never negative and never smaller than the number of
\* resources whose handoff is pending: it already counts a resource whose
\* AddResource has not started the handoff yet, and still counts one that a
\* GetResource call has received and not yet counted down.
C18_CountCoversPending ==
  /\ resourceCount >= 0
  /\ resourceCount >= EnqueuedCount
  /\ resourceCount >= EnqueuedCount
                       + Cardinality({t \in Threads : pc[t] = "add_go"})
                       + Cardinality({p \in Procs : pc[p] = "get_dec"})

\* Every kind of holder at once: a resource enqueued, one received and not
\* yet counted down.
C18_Witness ==
  /\ EnqueuedCount >= 1
  /\ \E p \in Procs : pc[p] = "get_dec"
  /\ resourceCount = EnqueuedCount + 1

\* C19: GetResource returns either a resource with a nil error or no resource
\* with the context's error, never both and never neither; a resource that
\* passes the health check is returned untouched even when the context is
\* done, and a call that fails has dequeued only resources it found unhealthy.
C19_OneResult ==
  /\ [](\A p \in Procs :
          pc[p] = "get_ret" =>
            /\ (res[p] \in Res) # (err[p] # "nil")
            /\ err[p] \in {"nil", "ctx"}
            /\ err[p] = "ctx" => \A r \in deqs[p] : r \in discards[p] /\ ~healthy[r])
  /\ [][\A p \in Procs :
          pc[p] = "get_health" /\ healthy[res[p]] /\ pc'[p] # "get_health" =>
            /\ pc'[p] = "get_ret" /\ res'[p] = res[p] /\ err'[p] = "nil"
            /\ terminated' = terminated]_vars

\* A call whose context ended while it was running still returns the healthy
\* resource it dequeued, with a nil error.
C19_Witness ==
  \E p \in Procs :
    /\ pc[p] = "get_ret" /\ res[p] \in Res /\ err[p] = "nil"
    /\ ctxDone[p] /\ ~ctxAtCall[p] /\ healthy[res[p]]

\* Resources in the pool or with a borrower: enqueued, being added, owned by
\* a client or in a call's hands, but for those a GetResource call has found
\* unhealthy and is about to terminate.
Live ==
  Cardinality({r \in Res :
                 /\ Holders(r) > 0
                 /\ ~\E p \in Procs : pc[p] = "get_term" /\ res[p] = r})

\* C20: in a Wizard pool whose clients only add back what they borrowed,
\* Size() never exceeds N and neither does the number of live resources: a
\* replacement is added only after the resource it replaces has been
\* received, counted down and found unhealthy.
C20_NoOvershoot ==
  /\ Size <= wizardCount
  /\ Live <= wizardCount
  /\ EnqueuedCount + SumOver(replacing, Res)
       + SumOver([p \in Procs |-> Cardinality(held[p])], Procs) <= wizardCount

\* A replacement has brought the pool back to N while a borrower owns a
\* resource.
C20_Witness ==
  /\ replaced >= 1 /\ discarded >= 1
  /\ Live = wizardCount
  /\ \E p \in Procs : held[p] # {}
  /\ Size + SumOver([p \in Procs |-> Cardinality(held[p])], Procs) = wizardCount
====
